---------------------------- MODULE Spec2Model ----------------------------
(***************************************************************************)
(* Model of src/static/app.js: the incremental evaluation engine of the    *)
(* line-oriented math editor (change detection, debounced scheduling,      *)
(* result projection) and its page registry.                               *)
(*                                                                         *)
(* Strings the code takes apart (the editor text that is split into lines, *)
(* result strings searched for the error marker, tab names that are        *)
(* trimmed) are sequences of characters; strings the code only copies      *)
(* (status texts, messages) are TLA+ strings.                              *)
(***************************************************************************)
EXTENDS Integers, Sequences, FiniteSets, TLC

VARIABLES
    editor,         \* editor.value, the live text of the active page
    overlay,        \* the result column: textContent of each .overlay-result row
    previousLines,  \* let previousLines
    latestResults,  \* let latestResults
    debounceTimer,  \* let debounceTimer: handle of the last timer armed, or NoTimer
    timers,         \* the browser's pending timeouts armed by scheduleEvaluation
    pages,          \* let pages: the ordered page list
    currentPageId,  \* let currentPageId
    pageIdCounter,  \* let pageIdCounter
    inflight,       \* evaluation requests sent and not yet answered, in issue order
    errorLogs,      \* let errorLogs
    remoteLogs,     \* the entries the remote store of /api/log-error holds
    status,         \* status.textContent
    editorInfo,     \* editorInfo.textContent
    evaluated,      \* history: ids of the pages that had a completed round
    requested,      \* history: by page id, the lines of the last request sent
                    \* with the lines of that page
    last            \* history: the handler that ran last, with its inputs

vars == <<editor, overlay, previousLines, latestResults, debounceTimer, timers,
          pages, currentPageId, pageIdCounter, inflight, errorLogs, remoteLogs,
          status, editorInfo, evaluated, requested, last>>

-----------------------------------------------------------------------------
(* Bounds of the model *)

MaxIds == 2            \* Spec, SpecSwitch: pages ever created (pageIdCounter)
MaxInflight == 1       \* evaluation rounds in flight at once
MaxBurst == 2          \* consecutive qualifying edits counted in last.n
MaxTabs == 3           \* SpecTabs: pages ever created
MaxTextLen == 3        \* SpecDetector: characters of an editor text
MaxResults == 2        \* SpecProjector: entries of a results array
MaxLogged == 2         \* SpecFailures: entries in errorLogs before a response
MaxScanned == 1        \* SpecErrorScan: entries in errorLogs before a response
MaxOverlap == 2        \* SpecOverlap: evaluation rounds in flight at once
MaxAppends == 2        \* SpecErrorLog: entries sent to the remote store beyond
                       \* the capacity of the local buffer

(* Program constants *)

MaxErrorLogs == 100    \* errorLogs.length > 100

-----------------------------------------------------------------------------
(* JavaScript values *)

NoChange == -1
NL == "\n"
NoTimer == 0           \* debounceTimer = null; the handles of real timers are positive
\* An object (a context) is the set of its <<key, value>> entries.
EmptyObject == {}

\* An optional value (a property of the response that may be missing) is a
\* sequence of no or one element.
None == <<>>
Some(v) == <<v>>

\* Strings that are taken apart are sequences of characters.  undefined and
\* null, where they can stand in the place of such a string, are the
\* one-element sequences below, which no string of characters equals.
UndefinedValue == <<"undefined">>
NullValue == <<"null">>
Main == <<"M", "a", "i", "n">>
ErrorMarker == "Error:"

\* x || "" for a result string: undefined, null and "" all give ""
OrEmptyString(x) == IF x \in {UndefinedValue, NullValue} THEN <<>> ELSE x

\* x || {} and x || [] for an optional property of the response
OrEmptyObject(x) == IF x = None THEN EmptyObject ELSE x[1]
OrEmptyArray(x) == IF x = None THEN <<>> ELSE x[1]

\* truthiness of page.results, which always holds an array (lines 405, 562):
\* every array, the empty one included, is truthy
TruthyArray(a) == TRUE

\* array[i] with a 0-based index; out of range reads undefined
At(array, i) == IF i >= 0 /\ i < Len(array) THEN array[i + 1] ELSE UndefinedValue

\* String.prototype.split("\n")
RECURSIVE Split(_)
Split(s) ==
    IF \A i \in 1..Len(s) : s[i] # NL
    THEN <<s>>
    ELSE LET i == CHOOSE j \in 1..Len(s) :
                      s[j] = NL /\ \A h \in 1..(j - 1) : s[h] # NL
         IN <<SubSeq(s, 1, i - 1)>> \o Split(SubSeq(s, i + 1, Len(s)))

\* String.prototype.trim() over the characters of the model
RECURSIVE TrimLeft(_)
TrimLeft(s) == IF s # <<>> /\ Head(s) \in {" ", NL} THEN TrimLeft(Tail(s)) ELSE s
RECURSIVE TrimRight(_)
TrimRight(s) ==
    IF s # <<>> /\ s[Len(s)] \in {" ", NL}
    THEN TrimRight(SubSeq(s, 1, Len(s) - 1))
    ELSE s
Trim(s) == TrimRight(TrimLeft(s))

\* faulty variant: every non-empty result counts as an error
IncludesAnything(result) == result # <<>>

\* String.prototype.includes("Error:") on a result string
IncludesError(result) == \E i \in 1..Len(result) : result[i] = ErrorMarker

\* String(n) for the small numbers of a default page name
Digits(n) == <<<<"0">>, <<"1">>, <<"2">>, <<"3">>, <<"4">>, <<"5">>,
               <<"6">>, <<"7">>, <<"8">>, <<"9">>>>[n + 1]

Max(a, b) == IF a >= b THEN a ELSE b

-----------------------------------------------------------------------------
(* The result column and the change detector *)

\* renderLines(lines): one row per line, showing latestResults[index] || ""
renderLines(lines, results) ==
    [i \in 1..Len(lines) |-> OrEmptyString(At(results, i - 1))]

\* faulty variant: the loop starts at row 0
updateResultsFromTop(startIndex, results, rows) ==
    [r \in 1..Len(rows) |->
        IF r - 1 < Len(results) THEN OrEmptyString(At(results, r - 1)) ELSE rows[r]]

\* The rows after updateResultsFrom(startIndex, results): the loop runs i from
\* startIndex while i < results.length and writes results[i] || "" into row i,
\* where that row exists.
updateResultsFrom(startIndex, results, rows) ==
    [r \in 1..Len(rows) |->
        IF r - 1 >= startIndex /\ r - 1 < Len(results)
        THEN OrEmptyString(At(results, r - 1))
        ELSE rows[r]]

\* getChangedLineIndex(lines), reading previousLines: the first i below
\* max(lines.length, previousLines.length) with lines[i] !== previousLines[i]
RECURSIVE ChangedFrom(_, _, _, _)
ChangedFrom(i, max, lines, previous) ==
    IF i >= max THEN NoChange
    ELSE IF At(lines, i) # At(previous, i) THEN i
    ELSE ChangedFrom(i + 1, max, lines, previous)

\* faulty variant: index 0 instead of the no-change sentinel
getChangedLineIndexNoSentinel(lines, previous) ==
    LET i == ChangedFrom(0, Max(Len(lines), Len(previous)), lines, previous)
    IN IF i = NoChange THEN 0 ELSE i

\* faulty variant: the scan stops at the shorter array
getChangedLineIndexShorter(lines, previous) ==
    ChangedFrom(0, IF Len(lines) <= Len(previous) THEN Len(lines) ELSE Len(previous),
                lines, previous)

getChangedLineIndex(lines, previous) ==
    ChangedFrom(0, Max(Len(lines), Len(previous)), lines, previous)

-----------------------------------------------------------------------------
(* The page registry *)

\* pages.findIndex(p => p.id === id), 1-based; 0 when there is none
FindIndex(ps, id) ==
    IF \E i \in 1..Len(ps) : ps[i].id = id
    THEN CHOOSE i \in 1..Len(ps) :
             ps[i].id = id /\ \A j \in 1..(i - 1) : ps[j].id # id
    ELSE 0

HasPage(ps, id) == FindIndex(ps, id) # 0
PageIds(ps) == {ps[i].id : i \in 1..Len(ps)}

\* pages.splice(idx, 1) with a 1-based idx
Splice(ps, idx) == SubSeq(ps, 1, idx - 1) \o SubSeq(ps, idx + 1, Len(ps))

\* the page object createPage(name) pushes, id being pageIdCounter:
\* name || `Page${id + 1}`, with <<>> for a missing name
createPage(id, name) ==
    [id |-> id,
     name |-> IF name = <<>> THEN <<"P", "a", "g", "e">> \o Digits(id + 1) ELSE name,
     content |-> <<>>,
     results |-> <<>>,
     context |-> EmptyObject]

\* faulty variant: the results are not stored
saveCurrentPageContentOnly(ps, cur, text, results) ==
    LET i == FindIndex(ps, cur)
    IN IF i = 0 THEN ps ELSE [ps EXCEPT ![i].content = text]

\* saveCurrentPage(): the page list after it
saveCurrentPage(ps, cur, text, results) ==
    LET i == FindIndex(ps, cur)
    IN IF i = 0 THEN ps
       ELSE [ps EXCEPT ![i].content = text, ![i].results = results]

\* faulty variant: a key the object already has keeps its value
PutIfAbsent(obj, key, value) ==
    [k \in DOMAIN obj \cup {key} |-> IF k \in DOMAIN obj THEN obj[k] ELSE value]

\* obj[key] = value on an object held as a function
Put(obj, key, value) ==
    [k \in DOMAIN obj \cup {key} |-> IF k = key THEN value ELSE obj[k]]

\* the forEach of evaluateLines that fills allPagesContext, page by page
RECURSIVE AllPagesContext(_, _, _)
AllPagesContext(ps, cur, acc) ==
    IF ps = <<>> THEN acc
    ELSE LET page == Head(ps)
         IN AllPagesContext(Tail(ps), cur,
                IF page.id # cur /\ TruthyArray(page.results)
                THEN Put(acc, page.name, page.context)
                ELSE acc)

-----------------------------------------------------------------------------
(* The error log *)

\* faulty variant: the newest entry is dropped (pop instead of shift)
logErrorPop(logs, message, type, lineNo) ==
    LET pushed == Append(logs, [type |-> type, message |-> message, lineNo |-> lineNo])
    IN IF Len(pushed) > MaxErrorLogs THEN SubSeq(pushed, 1, Len(pushed) - 1) ELSE pushed

\* errorLogs after the push and shift of logError(message, type, lineNo);
\* lineNo 0 stands for null.  The timestamp is left out.
\* A message is the sequence of its parts.
logError(logs, message, type, lineNo) ==
    LET pushed == Append(logs, [type |-> type, message |-> message, lineNo |-> lineNo])
    IN IF Len(pushed) > MaxErrorLogs THEN Tail(pushed) ELSE pushed

\* The remote store after the POST /api/log-error that logError and the clear
\* button send: the store keeps every entry it is sent, in order.  The POST is
\* taken to arrive at once; a POST that fails changes nothing anywhere (the
\* catch only writes to the console) and is left out.
postLogError(store, message, type, lineNo) ==
    Append(store, [type |-> type, message |-> message, lineNo |-> lineNo])

\* the forEach over data.results logging every result that includes "Error:"
RECURSIVE LogResultErrors(_, _, _, _)
LogResultErrors(logs, results, idx, startIndex) ==
    IF idx >= Len(results) THEN logs
    ELSE LET result == At(results, idx)
         IN LogResultErrors(
                IF result \notin {UndefinedValue, NullValue, <<>>} /\ IncludesError(result)
                THEN logError(logs, result, "evaluation", idx + startIndex + 1)
                ELSE logs,
                results, idx + 1, startIndex)

\* the remote store after the POSTs of the same forEach
RECURSIVE PostResultErrors(_, _, _, _)
PostResultErrors(store, results, idx, startIndex) ==
    IF idx >= Len(results) THEN store
    ELSE LET result == At(results, idx)
         IN PostResultErrors(
                IF result \notin {UndefinedValue, NullValue, <<>>} /\ IncludesError(result)
                THEN postLogError(store, result, "evaluation", idx + startIndex + 1)
                ELSE store,
                results, idx + 1, startIndex)

-----------------------------------------------------------------------------
(* Handlers *)

\* the lowest handle no pending timer holds; handles are only compared for
\* equality, so the model reuses them instead of counting up
FreshHandle(pending) ==
    CHOOSE h \in 1..(Cardinality(pending) + 1) :
        /\ \A t \in pending : t.id # h
        /\ \A g \in 1..(h - 1) : \E t \in pending : t.id = g

\* faulty variant: the previous timer is not cancelled
clearTimeoutForgotten(pending, handle) == pending

\* clearTimeout(handle)
clearTimeout(pending, handle) == {t \in pending : t.id # handle}

\* faulty variant: the request always asks for line 0 onward
SendRequestFromTop(lines, startIndex, src) ==
    /\ status' = "Evaluating..."
    /\ editorInfo' = <<"Evaluating...", 0>>
    /\ inflight' = Append(inflight,
           [lines |-> lines,
            startIndex |-> 0,
            context |-> AllPagesContext(pages, currentPageId, [k \in {} |-> {}]),
            page |-> currentPageId,
            src |-> src,
            overtaken |-> FALSE])
    /\ requested' = Put(requested, src, lines)

\* faulty variant: sending a request drops the rounds in flight
SendRequestCancelling(lines, startIndex, src) ==
    /\ status' = "Evaluating..."
    /\ editorInfo' = <<"Evaluating...", 0>>
    /\ inflight' = <<[lines |-> lines,
                      startIndex |-> startIndex,
                      context |-> AllPagesContext(pages, currentPageId, [k \in {} |-> {}]),
                      page |-> currentPageId,
                      src |-> src,
                      overtaken |-> FALSE]>>
    /\ requested' = Put(requested, src, lines)

\* evaluateLines(lines, startIndex) up to its await: the indicators, the context
\* snapshot and the request.  page, src and overtaken are history: the page
\* that was active when the request was sent, the page whose lines it carries,
\* and whether a request sent after it has been answered before it.
SendRequest(lines, startIndex, src) ==
    /\ status' = "Evaluating..."
    /\ editorInfo' = <<"Evaluating...", 0>>
    /\ inflight' = Append(inflight,
           [lines |-> lines,
            startIndex |-> startIndex,
            context |-> AllPagesContext(pages, currentPageId, [k \in {} |-> {}]),
            page |-> currentPageId,
            src |-> src,
            overtaken |-> FALSE])
    /\ requested' = Put(requested, src, lines)

\* scheduleEvaluation() after an input event that left `text` in the editor
\* (typing, pasting, or one of the insert buttons, which append to
\* editor.value and call scheduleEvaluation themselves)
EditorInput(text) ==
    LET lines == Split(text)
        changedIndex == getChangedLineIndex(lines, previousLines)
        burst == IF last.op = "input" /\ last.changed # NoChange
                 THEN IF last.n < MaxBurst THEN last.n + 1 ELSE last.n
                 ELSE 1
    IN /\ editor' = text
       /\ IF changedIndex = NoChange
          THEN /\ UNCHANGED <<previousLines, overlay, timers, debounceTimer>>
               /\ last' = [op |-> "input", changed |-> NoChange, n |-> 0]
          ELSE LET kept == clearTimeout(timers, debounceTimer)
                   handle == FreshHandle(kept)
               IN /\ previousLines' = lines
                  /\ overlay' = renderLines(lines, latestResults)
                  /\ timers' = kept \cup {[id |-> handle,
                                           lines |-> lines,
                                           changedIndex |-> changedIndex,
                                           src |-> currentPageId]}
                  /\ debounceTimer' = handle
                  /\ last' = [op |-> "input", changed |-> changedIndex, n |-> burst]
       /\ UNCHANGED <<latestResults, pages, currentPageId, pageIdCounter, inflight,
                      errorLogs, remoteLogs, status, editorInfo, evaluated, requested>>

\* the callback of the timeout armed by scheduleEvaluation
TimerFire(t) ==
    /\ t \in timers
    /\ timers' = timers \ {t}
    /\ SendRequest(t.lines, t.changedIndex, t.src)
    /\ last' = [op |-> "timer",
                n |-> IF last.op = "input" /\ last.changed # NoChange THEN last.n ELSE 0]
    /\ UNCHANGED <<editor, overlay, previousLines, latestResults, debounceTimer,
                   pages, currentPageId, pageIdCounter, errorLogs, remoteLogs, evaluated>>

\* runBtn click
RunClick ==
    /\ SendRequest(Split(editor), 0, currentPageId)
    /\ last' = [op |-> "run"]
    /\ UNCHANGED <<editor, overlay, previousLines, latestResults, debounceTimer,
                   timers, pages, currentPageId, pageIdCounter, errorLogs,
                   remoteLogs, evaluated>>

\* the rounds still in flight once the i-th is answered; those sent before it
\* are now overtaken
Remaining(rounds, i) ==
    LET rest == Splice(rounds, i)
    IN [k \in 1..Len(rest) |->
           IF k < i THEN [rest[k] EXCEPT !.overtaken = TRUE] ELSE rest[k]]

\* evaluateLines from its await on, for the i-th request in flight.  A round
\* that completes counts (in evaluated) for the page whose lines it carried and
\* for the page its response is stored in.  A response
\* is [kind, results, context, error]:
\*   "ok"        a 2xx answer whose body parsed; results and context are optional
\*   "rejected"  a non-2xx answer whose body parsed; error is optional
\*   "malformed" an answer whose body response.json() cannot parse (it throws)
\*   "failed"    no answer: fetch rejects
\* renderVariables() only redraws the variables pane from pages.
Respond(i, response) ==
    LET request == inflight[i]
        results == OrEmptyArray(response.results)
        cur == FindIndex(pages, currentPageId)
        caught == /\ status' = "Evaluation failed"
                  /\ editorInfo' = <<"Failed", 0>>
    IN /\ i \in 1..Len(inflight)
       /\ inflight' = Remaining(inflight, i)
       /\ last' = [op |-> "response", request |-> request, response |-> response,
                   active |-> currentPageId]
       /\ CASE response.kind = "ok" ->
                 /\ latestResults' = results
                 /\ overlay' = updateResultsFrom(request.startIndex, results, overlay)
                 /\ pages' = IF cur = 0 THEN pages
                             ELSE [pages EXCEPT ![cur].context =
                                       OrEmptyObject(response.context)]
                 /\ evaluated' = evaluated \cup {request.src, currentPageId}
                 /\ IF response.results = None
                    THEN \* data.results.forEach throws a TypeError
                         /\ caught
                         /\ errorLogs' = logError(errorLogs,
                                <<"Network error: ", "TypeError">>, "network", 0)
                         /\ remoteLogs' = postLogError(remoteLogs,
                                <<"Network error: ", "TypeError">>, "network", 0)
                    ELSE /\ status' = "Ready"
                         /\ editorInfo' = <<"lines", Len(request.lines)>>
                         /\ errorLogs' = LogResultErrors(errorLogs, results, 0,
                                                         request.startIndex)
                         /\ remoteLogs' = PostResultErrors(remoteLogs, results, 0,
                                                           request.startIndex)
            [] response.kind = "rejected" ->
                 LET errorMsg == IF response.error = None
                                 THEN "Evaluation failed"
                                 ELSE response.error[1]
                 IN /\ status' = errorMsg
                    /\ editorInfo' = <<"Error", 0>>
                    /\ errorLogs' = logError(errorLogs, <<errorMsg>>, "api", 0)
                    /\ remoteLogs' = postLogError(remoteLogs, <<errorMsg>>, "api", 0)
                    /\ UNCHANGED <<latestResults, overlay, pages, evaluated>>
            [] response.kind = "malformed" ->
                 /\ caught
                 /\ errorLogs' = logError(errorLogs,
                        <<"Network error: ", "SyntaxError">>, "network", 0)
                 /\ remoteLogs' = postLogError(remoteLogs,
                        <<"Network error: ", "SyntaxError">>, "network", 0)
                 /\ UNCHANGED <<latestResults, overlay, pages, evaluated>>
            [] response.kind = "failed" ->
                 /\ caught
                 /\ errorLogs' = logError(errorLogs,
                        <<"Network error: ", "Failed to fetch">>, "network", 0)
                 /\ remoteLogs' = postLogError(remoteLogs,
                        <<"Network error: ", "Failed to fetch">>, "network", 0)
                 /\ UNCHANGED <<latestResults, overlay, pages, evaluated>>
       /\ UNCHANGED <<editor, previousLines, debounceTimer, timers, currentPageId,
                      pageIdCounter, requested>>

\* clearBtn click
ClearClick ==
    /\ editor' = <<>>
    /\ previousLines' = <<>>
    /\ latestResults' = <<>>
    /\ overlay' = renderLines(<<>>, <<>>)
    /\ editorInfo' = <<"Ready", 0>>
    /\ pages' = saveCurrentPage(pages, currentPageId, <<>>, <<>>)
    /\ last' = [op |-> "clear"]
    /\ UNCHANGED <<debounceTimer, timers, currentPageId, pageIdCounter, inflight,
                   errorLogs, remoteLogs, status, evaluated, requested>>

\* switchToPage(pageId), applied to the page list `ps` its caller left
switchToPage(ps, pageId) ==
    LET saved == saveCurrentPage(ps, currentPageId, editor, latestResults)
        i == FindIndex(saved, pageId)
    IN /\ pages' = saved
       /\ currentPageId' = pageId
       /\ IF i = 0
          THEN UNCHANGED <<editor, previousLines, latestResults, overlay>>
          ELSE /\ editor' = saved[i].content
               /\ previousLines' = Split(saved[i].content)
               /\ latestResults' = saved[i].results
               /\ overlay' = renderLines(Split(saved[i].content), saved[i].results)

\* tabName click
TabClick(pageId) ==
    /\ HasPage(pages, pageId)
    /\ switchToPage(pages, pageId)
    /\ last' = [op |-> "switch", from |-> currentPageId, to |-> pageId,
                editor |-> editor, previousLines |-> previousLines,
                latestResults |-> latestResults,
                back |-> /\ last.op \in {"switch", "add"}
                         /\ last.from = pageId
                         /\ last.to = currentPageId
                         /\ pageId # currentPageId]
    /\ UNCHANGED <<debounceTimer, timers, pageIdCounter, inflight, errorLogs, remoteLogs,
                   status, editorInfo, evaluated, requested>>

\* addTabBtn click: createPage() and switchToPage(page.id)
AddTabClick ==
    /\ pageIdCounter' = pageIdCounter + 1
    /\ switchToPage(Append(pages, createPage(pageIdCounter, <<>>)), pageIdCounter)
    /\ last' = [op |-> "add", from |-> currentPageId, to |-> pageIdCounter,
                editor |-> editor, previousLines |-> previousLines,
                latestResults |-> latestResults]
    /\ UNCHANGED <<debounceTimer, timers, inflight, errorLogs, remoteLogs, status,
                   editorInfo, evaluated, requested>>

\* pages.length > 1, the guard of closeBtn.onclick
CanClose(ps) == Len(ps) > 1

\* faulty variant: no other page is activated: the closed page stays the current one
KeepCurrent(rest) == currentPageId

\* faulty variant: the last remaining page is activated
LastRemaining(rest) == rest[Len(rest)].id

\* pages[0].id, the page closeBtn.onclick activates after it removed the active one
FirstRemaining(rest) == rest[1].id

\* closeBtn.onclick of the tab of page `pageId`
CloseClick(pageId) ==
    /\ HasPage(pages, pageId)
    /\ last' = [op |-> "close", id |-> pageId, active |-> currentPageId,
                before |-> pages]
    /\ IF CanClose(pages)
       THEN LET rest == Splice(pages, FindIndex(pages, pageId))
            IN IF currentPageId = pageId
               THEN switchToPage(rest, FirstRemaining(rest))
               ELSE /\ pages' = rest
                    /\ UNCHANGED <<currentPageId, editor, previousLines,
                                   latestResults, overlay>>
       ELSE UNCHANGED <<pages, currentPageId, editor, previousLines, latestResults,
                        overlay>>
    /\ UNCHANGED <<debounceTimer, timers, pageIdCounter, inflight, errorLogs, remoteLogs,
                   status, editorInfo, evaluated, requested>>

\* finish(apply) of startRenameTab for the tab of page `pageId`, with `value`
\* typed into the input
RenameFinish(pageId, value, apply) ==
    LET i == FindIndex(pages, pageId)
    IN /\ i # 0
       /\ pages' = IF apply /\ Trim(value) # <<>>
                   THEN [pages EXCEPT ![i].name = Trim(value)]
                   ELSE pages
       /\ last' = [op |-> "rename", id |-> pageId]
       /\ UNCHANGED <<editor, overlay, previousLines, latestResults, debounceTimer,
                      timers, currentPageId, pageIdCounter, inflight, errorLogs,
                      remoteLogs,
                      status, editorInfo, evaluated, requested>>

\* showErrorModal(), the handler of a click on editorInfo, with the answer of
\* GET /api/error-logs.  An answer is [kind, errors]:
\*   "ok"      a body that parsed; errors is optional
\*   "failed"  fetch or response.json() threw: the catch leaves errorLogs alone
\* The request and its answer are one step.  renderErrorLogs() and the modal
\* only draw errorLogs.
ShowErrorModal(answer) ==
    /\ errorLogs' = IF answer.kind = "ok" THEN OrEmptyArray(answer.errors) ELSE errorLogs
    /\ last' = [op |-> "showErrors", kind |-> answer.kind]
    /\ UNCHANGED <<editor, overlay, previousLines, latestResults, debounceTimer,
                   timers, pages, currentPageId, pageIdCounter, inflight, remoteLogs,
                   status, editorInfo, evaluated, requested>>

\* the answers to GET /api/error-logs: the list the store holds, a body
\* without `errors`, or no answer
ErrorLogAnswers(store) ==
    {[kind |-> "ok", errors |-> Some(store)],
     [kind |-> "ok", errors |-> None],
     [kind |-> "failed", errors |-> None]}

\* clearErrorsBtn click
ClearErrorsClick ==
    /\ errorLogs' = <<>>
    /\ remoteLogs' = postLogError(remoteLogs, <<"Logs cleared">>, "system", 0)
    /\ last' = [op |-> "clearErrors"]
    /\ UNCHANGED <<editor, overlay, previousLines, latestResults, debounceTimer,
                   timers, pages, currentPageId, pageIdCounter, inflight, status,
                   editorInfo, evaluated, requested>>

-----------------------------------------------------------------------------
(* Specifications *)

\* the state bootstrap() leaves, with `text` the initial content of the editor:
\* one page "Main", and the first round in flight.  The specifications start
\* from an empty editor.  What the remote store holds when the page loads is
\* not bootstrap's doing: each specification says it.
Bootstrap(text) ==
    /\ editor = text
    /\ previousLines = Split(text)
    /\ latestResults = <<>>
    /\ overlay = renderLines(Split(text), <<>>)
    /\ debounceTimer = NoTimer
    /\ timers = {}
    /\ pages = <<[createPage(0, Main) EXCEPT !.content = text]>>
    /\ currentPageId = 0
    /\ pageIdCounter = 1
    /\ inflight = <<[lines |-> Split(text), startIndex |-> 0,
                     context |-> [k \in {} |-> {}], page |-> 0, src |-> 0,
                     overtaken |-> FALSE]>>
    /\ errorLogs = <<>>
    /\ status = "Evaluating..."
    /\ editorInfo = <<"Evaluating...", 0>>
    /\ evaluated = {}
    /\ requested = [id \in {0} |-> Split(text)]
    /\ last = [op |-> "bootstrap"]

\* responses of the evaluator
Ok(results, context) ==
    [kind |-> "ok", results |-> Some(results), context |-> Some(context), error |-> None]

\* Spec: the editor, the scheduler, the evaluation rounds and the tabs of up to
\* MaxIds pages, over a small alphabet of inputs
SpecTexts == {<<>>, <<"a">>}
SpecResponses == {Ok(<<<<"2">>>>, {<<"x", "2">>})}

Init == Bootstrap(<<>>) /\ remoteLogs = <<>>

Next ==
    \/ \E text \in SpecTexts : EditorInput(text)
    \/ Len(inflight) < MaxInflight /\ \E t \in timers : TimerFire(t)
    \/ Len(inflight) < MaxInflight /\ RunClick
    \/ \E i \in 1..Len(inflight), response \in SpecResponses : Respond(i, response)
    \/ ClearClick
    \/ \E id \in PageIds(pages) : TabClick(id)
    \/ pageIdCounter < MaxIds /\ AddTabClick
    \/ \E id \in PageIds(pages) : CloseClick(id)

Spec == Init /\ [][Next]_vars

\* SpecTabs: the tab handlers (add, switch, close, rename) of up to MaxTabs
\* pages, and the answer to the first round
TabNames == {Main, <<" ">>, <<"B", " ">>}

NextTabs ==
    \/ \E id \in PageIds(pages) : TabClick(id)
    \/ pageIdCounter < MaxTabs /\ AddTabClick
    \/ \E id \in PageIds(pages) : CloseClick(id)
    \/ \E id \in PageIds(pages), value \in TabNames, apply \in BOOLEAN :
           RenameFinish(id, value, apply)
    \/ \E i \in 1..Len(inflight), response \in SpecResponses : Respond(i, response)

SpecTabs == Init /\ [][NextTabs]_vars

\* SpecNames: up to MaxTabs pages, each added after the other (the newest is
\* the active one), renamed to "B" or left with their default names, and
\* rounds sent with the run button, one at a time
NextNames ==
    \/ pageIdCounter < MaxTabs /\ AddTabClick
    \/ \E id \in PageIds(pages), apply \in BOOLEAN :
           RenameFinish(id, <<"B", " ">>, apply)
    \/ inflight = <<>> /\ RunClick
    \/ \E i \in 1..Len(inflight), response \in SpecResponses : Respond(i, response)

SpecNames == Init /\ [][NextNames]_vars

\* SpecScheduler: the editor, the scheduler and the evaluation rounds of the
\* one page bootstrap creates
SchedulerTexts == {<<>>, <<"a">>, <<"a", NL, "b">>}
SchedulerResponses == SpecResponses \cup {Ok(<<<<>>, <<"5">>>>, EmptyObject)}

NextScheduler ==
    \/ \E text \in SchedulerTexts : EditorInput(text)
    \/ Len(inflight) < MaxInflight /\ \E t \in timers : TimerFire(t)
    \/ Len(inflight) < MaxInflight /\ RunClick
    \/ \E i \in 1..Len(inflight), response \in SchedulerResponses :
           Respond(i, response)
    \/ ClearClick

SpecScheduler == Init /\ [][NextScheduler]_vars

\* SpecSwitch: editing and the tabs of up to MaxIds pages while the first
\* round is answered; no further round is sent (a timer that was armed is
\* still pending)
NextSwitch ==
    \/ \E text \in SpecTexts : EditorInput(text)
    \/ \E i \in 1..Len(inflight), response \in SpecResponses : Respond(i, response)
    \/ ClearClick
    \/ \E id \in PageIds(pages) : TabClick(id)
    \/ pageIdCounter < MaxIds /\ AddTabClick
    \/ \E id \in PageIds(pages) : CloseClick(id)

SpecSwitch == Init /\ [][NextSwitch]_vars

\* SpecDetector: the change detector on every pair of texts of up to
\* MaxTextLen characters, typed (or pasted) one after the other
Chars == {"a", "b", NL}
Texts(n) == UNION {[1..k -> Chars] : k \in 0..n}

NextDetector ==
    \/ \E text \in Texts(MaxTextLen) : EditorInput(text)
    \/ ClearClick

SpecDetector == Init /\ [][NextDetector]_vars

\* SpecProjector: rounds of one page over texts of one to three lines, answered
\* with every results array of up to MaxResults entries
ProjectorTexts == {<<"a">>, <<"a", NL, "b">>, <<"a", NL, "b", NL, "a">>}
ResultStrings == {<<"1">>, <<"2">>}
ResultArrays(n) == UNION {[1..k -> ResultStrings] : k \in 0..n}

NextProjector ==
    \/ \E text \in ProjectorTexts : EditorInput(text)
    \/ Len(inflight) < MaxInflight /\ \E t \in timers : TimerFire(t)
    \/ Len(inflight) < MaxInflight /\ RunClick
    \/ \E i \in 1..Len(inflight), results \in ResultArrays(MaxResults) :
           Respond(i, Ok(results, EmptyObject))

SpecProjector == Init /\ [][NextProjector]_vars

\* the answers of the evaluator that are no success
Rejected(error) ==
    [kind |-> "rejected", results |-> None, context |-> None, error |-> error]
Malformed == [kind |-> "malformed", results |-> None, context |-> None, error |-> None]
Failed == [kind |-> "failed", results |-> None, context |-> None, error |-> None]
\* a 2xx answer whose body is {}
OkEmptyBody == [kind |-> "ok", results |-> None, context |-> None, error |-> None]

\* SpecFailures: the rounds of the one page bootstrap creates, answered with a
\* success or with each kind of failure, until errorLogs holds MaxLogged entries
FailureResponses ==
    SpecResponses \cup {OkEmptyBody, Rejected(Some("bad request")), Rejected(None),
                        Malformed, Failed}

NextFailures ==
    \/ \E text \in SpecTexts : EditorInput(text)
    \/ Len(inflight) < MaxInflight /\ \E t \in timers : TimerFire(t)
    \/ Len(inflight) < MaxInflight /\ RunClick
    \/ /\ Len(errorLogs) < MaxLogged
       /\ \E i \in 1..Len(inflight), response \in FailureResponses :
              Respond(i, response)

SpecFailures == Init /\ [][NextFailures]_vars

\* SpecErrorScan: rounds of one page over texts of one and two lines, answered
\* with every results array of up to MaxResults values and error strings,
\* until errorLogs holds MaxScanned entries
ScanTexts == {<<"a">>, <<"a", NL, "b">>}
ScanStrings == {<<"2">>, <<ErrorMarker, "x">>}
ScanArrays(n) == UNION {[1..k -> ScanStrings] : k \in 0..n}

NextErrorScan ==
    \/ \E text \in ScanTexts : EditorInput(text)
    \/ Len(inflight) < MaxInflight /\ \E t \in timers : TimerFire(t)
    \/ Len(inflight) < MaxInflight /\ RunClick
    \/ /\ Len(errorLogs) < MaxScanned
       /\ \E i \in 1..Len(inflight), results \in ScanArrays(MaxResults) :
              Respond(i, Ok(results, EmptyObject))

SpecErrorScan == Init /\ [][NextErrorScan]_vars

\* An evaluator that answers a request with values naming its lines: a line
\* that is a literal evaluates to itself, and x is bound to the first line.
Echo(request) ==
    Ok(request.lines,
       IF request.lines[1] = <<>> THEN EmptyObject ELSE {<<"x", request.lines[1][1]>>})

\* SpecOverlap: the rounds of the one page bootstrap creates, up to MaxOverlap
\* of them in flight at once and answered in any order
OverlapTexts == {<<"1">>, <<"2">>}

NextOverlap ==
    \/ \E text \in OverlapTexts : EditorInput(text)
    \/ Len(inflight) < MaxOverlap /\ \E t \in timers : TimerFire(t)
    \/ Len(inflight) < MaxOverlap /\ RunClick
    \/ \E i \in 1..Len(inflight) : Respond(i, Echo(inflight[i]))

SpecOverlap == Init /\ [][NextOverlap]_vars

\* the store after an earlier session mirrored n entries: the evaluation
\* errors of the lines 1..n of a page
StoredLogs(n) ==
    [k \in 1..n |-> [type |-> "evaluation", message |-> <<ErrorMarker>>, lineNo |-> k]]

\* SpecErrorLog: the error log of a session that starts with a store holding
\* one entry less than the local buffer's capacity, or as many: failing rounds,
\* the log view and the clear button, until the store holds MaxAppends entries
\* more than the capacity
StoredSizes == {MaxErrorLogs - 1, MaxErrorLogs}
ErrorLogResponses == {Rejected(None), Failed}

InitErrorLog ==
    /\ Bootstrap(<<>>)
    /\ remoteLogs \in {StoredLogs(n) : n \in StoredSizes}

NextErrorLog ==
    \/ Len(inflight) < MaxInflight /\ RunClick
    \/ /\ Len(remoteLogs) < MaxErrorLogs + MaxAppends
       /\ \E i \in 1..Len(inflight), response \in ErrorLogResponses :
              Respond(i, response)
    \/ \E answer \in ErrorLogAnswers(remoteLogs) : ShowErrorModal(answer)
    \/ Len(remoteLogs) < MaxErrorLogs + MaxAppends /\ ClearErrorsClick

SpecErrorLog == InitErrorLog /\ [][NextErrorLog]_vars

-----------------------------------------------------------------------------
(* Claims about the scheduler, the rounds and the page switch *)

\* the entries of a page list by page id
ContextOf(ps, id) == ps[FindIndex(ps, id)].context

\* (checked under Spec)
\* C1 (as claimed): a page's stored context is only overwritten by the
\* response of a round that carries that page's lines and was sent while that
\* page was active; no other step changes the context of a page.
C1_ContextIsolation ==
    [][\A id \in PageIds(pages) \cap PageIds(pages') :
           ContextOf(pages', id) # ContextOf(pages, id)
               => /\ last'.op = "response"
                  /\ last'.request.src = id
                  /\ last'.request.page = id]_vars

\* (checked under SpecScheduler)
\* C5: at most one debounce timer is pending at any time; a qualifying edit
\* sends no request and leaves exactly one timer pending (it cancelled the one
\* before); the timer's callback sends exactly one request and leaves no timer
\* pending.  So a burst of N edits ends in one request, and an edit after the
\* callback arms a new timer for a request of its own.
C5_DebounceCoalescing ==
    /\ [](Cardinality(timers) <= 1)
    /\ [][/\ (last'.op = "input" /\ last'.changed # NoChange)
                => /\ inflight' = inflight
                   /\ Cardinality(timers') = 1
                   /\ \A t \in timers' : t.lines = Split(editor')
          /\ last'.op = "timer"
                => /\ Len(inflight') = Len(inflight) + 1
                   /\ timers' = {}]_vars

\* a request sent by the timer after a burst of at least two qualifying edits
C5_Witness ==
    /\ last.op = "timer"
    /\ last.n >= 2
    /\ timers = {}
    /\ inflight # <<>>

\* (checked under SpecScheduler)
\* C6: an input event that leaves the editor's lines equal to previousLines
\* sends no request, leaves the timers as they are, and changes none of
\* previousLines, latestResults, the result column, the pages and their
\* content, results and context, the error log and the indicators.
C6_NoOpEdit ==
    [][(last'.op = "input" /\ Split(editor') = previousLines)
           => UNCHANGED <<previousLines, latestResults, overlay, debounceTimer,
                          timers, pages, currentPageId, pageIdCounter, inflight,
                          errorLogs, remoteLogs, status, editorInfo>>]_vars

\* a no-op input event arrived although results and a stored context exist
C6_Witness ==
    /\ last.op = "input"
    /\ last.changed = NoChange
    /\ Split(editor) = previousLines
    /\ latestResults # <<>>
    /\ \E i \in 1..Len(pages) : pages[i].context # EmptyObject

\* (checked under Spec)
\* C9 (as claimed): the snapshot of the request just sent holds entries only
\* for pages other than the active one that received a completed round.
C9_SnapshotComposition ==
    last.op \in {"timer", "run"}
        => \A name \in DOMAIN inflight[Len(inflight)].context :
               \E i \in 1..Len(pages) :
                   /\ pages[i].name = name
                   /\ pages[i].id # currentPageId
                   /\ pages[i].id \in evaluated

\* (checked under SpecSwitch)
\* C10 (as claimed): switching from page A to page B and straight back to A
\* restores A's editor content, previousLines and latestResults.
C10_SwitchRestoresAll ==
    [][(last'.op = "switch" /\ last'.back)
           => /\ editor' = last.editor
              /\ previousLines' = last.previousLines
              /\ latestResults' = last.latestResults]_vars

\* (checked under SpecSwitch)
\* C10 (amended): switching from page A to page B stores the live editor text
\* and latestResults in A's record, and switching straight back restores
\* A's editor content and latestResults; previousLines becomes the lines of
\* A's content.
C10_SwitchPersistence ==
    [][/\ (last'.op \in {"switch", "add"} /\ HasPage(pages, currentPageId)
           /\ last'.to # currentPageId)
          => /\ pages'[FindIndex(pages', currentPageId)].content = editor
             /\ pages'[FindIndex(pages', currentPageId)].results = latestResults
       /\ (last'.op = "switch" /\ last'.back)
          => /\ editor' = last.editor
             /\ previousLines' = Split(last.editor)
             /\ latestResults' = last.latestResults]_vars

\* page A was left and re-entered with a text and results of its own
C10_Witness ==
    /\ last.op = "switch"
    /\ last.back
    /\ editor # <<>>
    /\ latestResults # <<>>
    /\ pages[FindIndex(pages, last.from)].content # editor

-----------------------------------------------------------------------------
(* Claims checked under SpecTabs *)

\* the first page in display order other than page `id`
FirstOther(ps, id) ==
    ps[CHOOSE i \in 1..Len(ps) :
           ps[i].id # id /\ \A j \in 1..(i - 1) : ps[j].id = id].id

\* C7: closing the only page changes neither the page list nor currentPageId;
\* closing a page that is not active removes it and keeps currentPageId;
\* closing the active page removes it and activates the first remaining page
\* in display order.
C7_PageClose ==
    [][last'.op = "close"
           => IF Len(pages) = 1
              THEN pages' = pages /\ currentPageId' = currentPageId
              ELSE /\ Len(pages') = Len(pages) - 1
                   /\ PageIds(pages') = PageIds(pages) \ {last'.id}
                   /\ \A i, j \in 1..Len(pages') :
                          i < j => FindIndex(pages, pages'[i].id)
                                       < FindIndex(pages, pages'[j].id)
                   /\ currentPageId' = IF currentPageId = last'.id
                                       THEN FirstOther(pages, last'.id)
                                       ELSE currentPageId]_vars

\* the active page, second of three tabs, was closed: the first tab is active
C7_Witness ==
    /\ last.op = "close"
    /\ Len(last.before) = 3
    /\ last.active = last.id
    /\ last.before[2].id = last.id
    /\ currentPageId = last.before[1].id
    /\ Len(pages) = 2

\* C8: after bootstrap and after every handler the page list is not empty, the
\* page ids are pairwise distinct and currentPageId is the id of exactly one
\* page.
C8_PageSet ==
    /\ Len(pages) >= 1
    /\ \A i, j \in 1..Len(pages) : pages[i].id = pages[j].id => i = j
    /\ Cardinality({i \in 1..Len(pages) : pages[i].id = currentPageId}) = 1

\* a page was closed and another one added after it, and a tab was renamed
C8_Witness ==
    /\ last.op = "add"
    /\ Len(pages) = 2
    /\ pages[1].id # 0
    /\ pages[1].name = <<"B">>

-----------------------------------------------------------------------------
(* Claims checked under SpecProjector *)

\* C2: applying a response with startIndex = k leaves the displayed result of
\* every row with index < k as it was.
C2_CascadeScope ==
    [][(last'.op = "response" /\ last'.response.kind = "ok")
           => /\ Len(overlay') = Len(overlay)
              /\ \A r \in 1..Len(overlay) :
                     r - 1 < last'.request.startIndex => overlay'[r] = overlay[r]]_vars

\* a response was applied from index 1 on while row 0 showed a result other
\* than the one the response holds for index 0
C2_Witness ==
    /\ last.op = "response"
    /\ last.request.startIndex >= 1
    /\ Len(latestResults) >= 2
    /\ Len(overlay) >= 2
    /\ overlay[1] # <<>>
    /\ overlay[1] # latestResults[1]
    /\ overlay[2] = latestResults[2]

\* C3 (as claimed): after a response was applied with startIndex = k, the row
\* of line k + j shows results[j], for every j below the length of results for
\* which that row exists.
C3_ResultAlignment ==
    (last.op = "response" /\ last.response.kind = "ok")
        => \A j \in 0..(Len(latestResults) - 1) :
               last.request.startIndex + j < Len(overlay)
                   => overlay[last.request.startIndex + j + 1]
                          = OrEmptyString(At(latestResults, j))

-----------------------------------------------------------------------------
(* Claims checked under SpecDetector *)

\* lines P and C differ at index i, an index missing from one of them counting
\* as a difference
DiffersAt(P, C, i) ==
    IF i < Len(P) /\ i < Len(C) THEN P[i + 1] # C[i + 1] ELSE TRUE

\* C4: for the previous lines P and the current lines C, the index
\* scheduleEvaluation gets from getChangedLineIndex is the least i below
\* max(|P|, |C|) at which they differ, and it is the sentinel -1 exactly when
\* P and C are equal.
C4_ChangeDetection ==
    [][last'.op = "input"
           => LET P == previousLines
                  C == Split(editor')
                  i == last'.changed
              IN IF P = C
                 THEN i = NoChange
                 ELSE /\ i \in 0..(Max(Len(P), Len(C)) - 1)
                      /\ DiffersAt(P, C, i)
                      /\ \A j \in 0..(i - 1) : ~DiffersAt(P, C, j)]_vars

\* the detector reported index 2, the first line the shorter previous array
\* does not have
C4_Witness ==
    /\ last.op = "input"
    /\ last.changed = 2
    /\ Len(previousLines) = 3
    /\ \E t \in timers : t.changedIndex = 2

-----------------------------------------------------------------------------
(* Claims about the requests that are sent *)

\* (checked under Spec)
\* C11 (as claimed): a request that was just sent, by the debounce timer or by
\* the run button, carries the lines of the text the active page has at that
\* moment, and they are the lines of the page that is active.
C11_RequestLinesOfActivePage ==
    last.op \in {"timer", "run"}
        => /\ inflight[Len(inflight)].lines = Split(editor)
           /\ inflight[Len(inflight)].src = currentPageId

\* (checked under SpecScheduler)
\* C12 (as claimed): in a request the scheduler's timer sends, every line
\* before startIndex has the text it had in the previous request sent with
\* that page's lines.
C12_StartIndexSound ==
    [][last'.op = "timer"
           => LET request == inflight'[Len(inflight')]
              IN request.src \in DOMAIN requested
                     => \A j \in 0..(request.startIndex - 1) :
                            At(request.lines, j) = At(requested[request.src], j)]_vars

-----------------------------------------------------------------------------
(* Claims about the outcome of a round *)

\* (checked under SpecScheduler)
\* C13 (as claimed): right after a round completed successfully, the record of
\* the page whose lines it carried holds the results of the round, one per
\* line of the request.
C13_StoredResults ==
    (/\ last.op = "response"
     /\ last.response.kind = "ok"
     /\ last.response.results # None
     /\ HasPage(pages, last.request.src))
        => LET page == pages[FindIndex(pages, last.request.src)]
           IN /\ page.results = latestResults
              /\ Len(page.results) = Len(last.request.lines)

\* the entries a step appended to errorLogs (while the buffer is not full)
Appended == SubSeq(errorLogs', Len(errorLogs) + 1, Len(errorLogs'))

\* (checked under SpecFailures)
\* C14 (as claimed): a response with a non-2xx status or with a malformed
\* payload appends exactly one entry, tagged api, whose message is the error
\* the server supplied or the generic fallback; an entry tagged network is
\* appended only when there was no response at all.
C14_FailureTagging ==
    [][last'.op = "response"
           => LET response == last'.response
              IN /\ response.kind \in {"rejected", "malformed"}
                        => /\ Len(Appended) = 1
                           /\ Appended[1].type = "api"
                           /\ Appended[1].message =
                                  <<IF response.error = None
                                    THEN "Evaluation failed"
                                    ELSE response.error[1]>>
                 /\ (\E k \in 1..Len(Appended) : Appended[k].type = "network")
                        => response.kind = "failed"]_vars

\* (checked under SpecFailures)
\* C15 (as claimed): a response that ends in an entry tagged api or network
\* leaves latestResults, the result column and the stored context of every
\* page as they were.
C15_FailedRoundKeepsState ==
    [][(/\ last'.op = "response"
        /\ \E k \in 1..Len(Appended) : Appended[k].type \in {"api", "network"})
           => /\ latestResults' = latestResults
              /\ overlay' = overlay
              /\ \A id \in PageIds(pages) :
                     /\ HasPage(pages', id)
                     /\ ContextOf(pages', id) = ContextOf(pages, id)]_vars

-----------------------------------------------------------------------------
(* Claims about the error log *)

\* (checked under SpecErrorLog)
\* C16: a step in which logError appends one entry to a buffer of 100 entries
\* drops the oldest entry and nothing else: the buffer then holds the 99
\* younger entries in their order and the new entry last.  Appending to a
\* buffer of fewer than 100 entries keeps every entry.
C16_RingBufferEviction ==
    [][(last'.op = "response" /\ last'.response.kind \in {"rejected", "failed"})
           => LET entry == errorLogs'[Len(errorLogs')]
              IN /\ errorLogs' # <<>>
                 /\ entry.type = IF last'.response.kind = "rejected"
                                 THEN "api" ELSE "network"
                 /\ Len(errorLogs) = 100
                        => /\ Len(errorLogs') = 100
                           /\ errorLogs' = Tail(errorLogs) \o <<entry>>
                 /\ Len(errorLogs) < 100
                        => errorLogs' = errorLogs \o <<entry>>]_vars

\* a failed round was logged into a buffer that held the 100 entries of the
\* store: the entry of line 1 is gone, the one of line 2 is now the oldest
C16_Witness ==
    /\ last.op = "response"
    /\ last.response.kind = "failed"
    /\ Len(errorLogs) = 100
    /\ errorLogs[1].lineNo = 2
    /\ errorLogs[99].lineNo = 100
    /\ errorLogs[100].type = "network"

-----------------------------------------------------------------------------
(* Claims about the behaviour of the scheduler and of overlapping rounds *)

\* (checked under SpecScheduler)
\* C17: every qualifying edit commits its lines as previousLines and leaves
\* one pending timer, holding those lines and the first index at which they
\* differ from the lines the qualifying edit before it committed; no other
\* step touches the pending timer; and the request the timer sends carries
\* exactly the lines and the index the timer holds.
C17_SchedulerSnapshot ==
    [][/\ (last'.op = "input" /\ last'.changed # NoChange)
             => /\ previousLines' = Split(editor')
                /\ Cardinality(timers') = 1
                /\ \A t \in timers' :
                       /\ t.lines = Split(editor')
                       /\ DiffersAt(previousLines, t.lines, t.changedIndex)
                       /\ \A j \in 0..(t.changedIndex - 1) :
                              ~DiffersAt(previousLines, t.lines, j)
       /\ last'.op = "timer"
             => /\ Cardinality(timers) = 1
                /\ Len(inflight') = Len(inflight) + 1
                /\ \A t \in timers :
                       /\ inflight'[Len(inflight')].lines = t.lines
                       /\ inflight'[Len(inflight')].startIndex = t.changedIndex
       /\ ~(last'.op = "input" /\ last'.changed # NoChange) /\ last'.op # "timer"
             => timers' = timers]_vars

\* the timer fired after two qualifying edits ("a", then a second line "b")
\* and sent both lines with the index of the second edit
C17_Witness ==
    /\ last.op = "timer"
    /\ last.n >= 2
    /\ inflight[Len(inflight)].lines = <<<<"a">>, <<"b">>>>
    /\ inflight[Len(inflight)].startIndex = 1

\* (checked under SpecOverlap)
\* C18: sending a request leaves every round in flight in place, and
\* a successful response is applied when it arrives, whatever the order the
\* rounds were sent in: latestResults and the context of the active page then
\* hold the data of that response, also when it belongs to a round that was
\* overtaken by a later one.
C18_OutOfOrderApplication ==
    [][/\ last'.op \in {"timer", "run"}
             => /\ Len(inflight') = Len(inflight) + 1
                /\ SubSeq(inflight', 1, Len(inflight)) = inflight
       /\ (last'.op = "response" /\ last'.response.kind = "ok")
             => /\ \E i \in 1..Len(inflight) :
                       /\ [inflight[i] EXCEPT !.overtaken = last'.request.overtaken]
                              = last'.request
                       /\ Len(inflight') = Len(inflight) - 1
                /\ latestResults' = OrEmptyArray(last'.response.results)
                /\ ContextOf(pages', currentPageId)
                       = OrEmptyObject(last'.response.context)]_vars

\* both rounds are answered, the one sent first last: latestResults and the
\* context hold the values of its lines, not those of the lines sent last
C18_Witness ==
    /\ last.op = "response"
    /\ last.request.overtaken
    /\ inflight = <<>>
    /\ requested[currentPageId] # last.request.lines
    /\ latestResults = last.request.lines
    /\ latestResults # Split(editor)
    /\ last.request.lines[1] # <<>>
    /\ ContextOf(pages, currentPageId) = {<<"x", last.request.lines[1][1]>>}

\* (checked under SpecErrorLog)
\* C19 (as claimed): the local error buffer never holds more than 100 entries.
C19_LocalBufferCap == Len(errorLogs) <= 100

\* the result string holds the error marker
HasMarker(result) == \E c \in 1..Len(result) : result[c] = "Error:"

\* (checked under SpecErrorScan)
\* C20: a successful response applied with startIndex s appends, for the
\* result indexes j whose string holds the error marker and for no other, one
\* entry tagged evaluation with lineNo s + j + 1 and the result as message, in
\* increasing j.
C20_EvaluationErrorLogging ==
    [][(/\ last'.op = "response"
        /\ last'.response.kind = "ok"
        /\ last'.response.results # None)
           => LET results == last'.response.results[1]
                  s == last'.request.startIndex
                  marked == {j \in 0..(Len(results) - 1) : HasMarker(results[j + 1])}
              IN /\ Len(Appended) = Cardinality(marked)
                 /\ \A k \in 1..Len(Appended) :
                        /\ Appended[k].type = "evaluation"
                        /\ \E j \in marked :
                               /\ Appended[k].lineNo = s + j + 1
                               /\ Appended[k].message = results[j + 1]
                 /\ \A k \in 1..(Len(Appended) - 1) :
                        Appended[k].lineNo < Appended[k + 1].lineNo]_vars

\* a response applied with startIndex 1 whose second result holds the marker
\* and whose first does not: the only entry is the one of line 3
C20_Witness ==
    /\ last.op = "response"
    /\ last.request.startIndex = 1
    /\ last.response.results = Some(<<<<"2">>, <<ErrorMarker, "x">>>>)
    /\ errorLogs = <<[type |-> "evaluation", message |-> <<ErrorMarker, "x">>,
                      lineNo |-> 3]>>

\* (checked under SpecOverlap)
\* C21 (as claimed): while a round is in flight, the status and the info
\* indicator both read "Evaluating...".
C21_InFlightStatus ==
    inflight # <<>>
        => /\ status = "Evaluating..."
           /\ editorInfo = <<"Evaluating...", 0>>

-----------------------------------------------------------------------------
(* Claims about the context snapshot *)

\* the positions in the page list of the pages other than the active one
\* that bear `name`
Bearers(name) ==
    {i \in 1..Len(pages) : pages[i].id # currentPageId /\ pages[i].name = name}

\* (checked under SpecNames)
\* C22: the snapshot of a request that was just sent has one entry for every
\* name borne by a page other than the active one and no other entry, and the
\* entry of a name is the stored context of the last page in the page list
\* that bears it, also when several pages bear it.
C22_DuplicateNames ==
    last.op = "run"
        => LET snapshot == inflight[Len(inflight)].context
           IN /\ DOMAIN snapshot = {pages[i].name : i \in 1..Len(pages)}
                                       \ {n \in {pages[i].name : i \in 1..Len(pages)} :
                                              Bearers(n) = {}}
              /\ \A n \in DOMAIN snapshot :
                     \E i \in Bearers(n) :
                         /\ \A j \in Bearers(n) : j <= i
                         /\ snapshot[n] = pages[i].context

\* a request sent while two other pages bear the same name with different
\* contexts: the snapshot holds the context of the later one
C22_Witness ==
    /\ last.op = "run"
    /\ \E i, j \in 1..Len(pages) :
           /\ i < j
           /\ {i, j} \subseteq Bearers(pages[i].name)
           /\ pages[i].context # pages[j].context
           /\ inflight[Len(inflight)].context[pages[i].name] = pages[j].context

=============================================================================
